---- MODULE Spec2Model ----
(***************************************************************************)
(* Motor position controller of the curtain actuator (src/src/main.rs).    *)
(*                                                                         *)
(* The stored position is an f32 and every conversion between steps and    *)
(* position goes through f32 arithmetic and the `as i16` cast, so the      *)
(* model carries IEEE-754 binary32 values exactly: a finite non-zero value *)
(* is sgn * man * 2^exp with a 24-bit mantissa man in [2^23, 2^24), and    *)
(* every operation rounds to nearest, ties to even, as the hardware does.  *)
(* Signed zero is not distinguished (no operation of the program tells the *)
(* two zeros apart) and results below the normal range are not produced by *)
(* any input of the model.                                                 *)
(***************************************************************************)
EXTENDS Integers, Sequences, FiniteSets, TLC

----------------------------------------------------------------------------
(* f32 values *)

Pow2(n) == 2 ^ n

MantMin == Pow2(23)

MantMax == Pow2(24)

Abs(n) == IF n < 0 THEN -n ELSE n

Sign(n) == IF n < 0 THEN -1 ELSE 1

NaN == [cls |-> "nan", sgn |-> 1, exp |-> 0, man |-> 0]

Inf(s) == [cls |-> "inf", sgn |-> s, exp |-> 0, man |-> 0]

Zero == [cls |-> "zero", sgn |-> 1, exp |-> 0, man |-> 0]

Fin(s, e, m) == [cls |-> "fin", sgn |-> s, exp |-> e, man |-> m]

\* Largest exponent of a finite value man * 2^exp (f32::MAX = (2^24 - 1) * 2^104).
ExpMax == 104

\* A rounded mantissa m in [2^23, 2^24] with exponent e, packed: a carry out of
\* the rounding renormalises, an exponent past the range overflows to infinity.
Pack(s, e, m) ==
    LET e2 == IF m = MantMax THEN e + 1 ELSE e
        m2 == IF m = MantMax THEN MantMin ELSE m
    IN  IF e2 > ExpMax THEN Inf(s) ELSE Fin(s, e2, m2)

\* Round to nearest, ties to even: q is the truncated mantissa, rem the part cut
\* off, measured against half (rem = half is a tie).
RoundEven(q, rem, half) ==
    IF rem > half \/ (rem = half /\ q % 2 = 1) THEN q + 1 ELSE q

\* floor(log2(a)) for 0 < a < 2^30.
Log2Floor(a) == CHOOSE k \in 0..30 : Pow2(k) <= a /\ a < Pow2(k + 1)

\* steps as f32, STEPS_TO_FULLY_OPEN as f32: exact for every i16.
I16ToF32(n) ==
    IF n = 0 THEN Zero
    ELSE LET k == 23 - Log2Floor(Abs(n))
         IN  Fin(Sign(n), -k, Abs(n) * Pow2(k))

\* Binary long division: q holds the quotient bits found so far of a quotient
\* scaled by 2^-e, r the remainder (r < d). One more bit per call until the
\* quotient fills 24 bits. Returns <<q, r, e>>.
RECURSIVE DivNorm(_, _, _, _)
DivNorm(q, r, d, e) ==
    IF q >= MantMin THEN <<q, r, e>>
    ELSE IF 2 * r >= d THEN DivNorm(2 * q + 1, 2 * r - d, d, e - 1)
         ELSE DivNorm(2 * q, 2 * r, d, e - 1)

\* The correctly rounded quotient n / d of two positive integers, n < 2^24 * d.
RoundedQuotient(s, n, d, e) ==
    LET t == DivNorm(n \div d, n % d, d, e)
    IN  Pack(s, t[3], RoundEven(t[1], 2 * t[2], d))

\* a / b
F32Div(a, b) ==
    IF a.cls = "nan" \/ b.cls = "nan" THEN NaN
    ELSE IF a.cls = "inf" THEN (IF b.cls = "inf" THEN NaN ELSE Inf(a.sgn * b.sgn))
    ELSE IF b.cls = "inf" THEN Zero
    ELSE IF b.cls = "zero" THEN (IF a.cls = "zero" THEN NaN ELSE Inf(a.sgn * b.sgn))
    ELSE IF a.cls = "zero" THEN Zero
    ELSE RoundedQuotient(a.sgn * b.sgn, a.man, b.man, a.exp - b.exp)

\* a * b: the 48-bit product of the mantissas is formed from 12-bit limbs as
\* hi * 2^24 + lo, so that no intermediate value leaves 31 bits.
F32Mul(a, b) ==
    IF a.cls = "nan" \/ b.cls = "nan" THEN NaN
    ELSE IF a.cls = "inf" \/ b.cls = "inf"
         THEN (IF a.cls = "zero" \/ b.cls = "zero" THEN NaN ELSE Inf(a.sgn * b.sgn))
    ELSE IF a.cls = "zero" \/ b.cls = "zero" THEN Zero
    ELSE LET L == Pow2(12)
             ah == a.man \div L
             al == a.man % L
             bh == b.man \div L
             bl == b.man % L
             mid == ah * bl + al * bh
             low == (mid % L) * L + al * bl
             hi == ah * bh + (mid \div L) + (low \div MantMax)
             lo == low % MantMax
             s == a.sgn * b.sgn
             e == a.exp + b.exp
         IN  IF hi >= MantMin
             THEN Pack(s, e + 24, RoundEven(hi, lo, MantMin))
             ELSE Pack(s, e + 23,
                       RoundEven(2 * hi + (lo \div MantMin), lo % MantMin, Pow2(22)))

\* m shifted right by d bits, a lost non-zero bit kept as a sticky low bit.
ShiftRightSticky(m, d) ==
    IF d = 0 THEN m
    ELSE IF d > 30 THEN (IF m = 0 THEN 0 ELSE 1)
    ELSE LET q == m \div Pow2(d)
         IN  IF m % Pow2(d) = 0 \/ q % 2 = 1 THEN q ELSE q + 1

\* A non-zero sum v of mantissas carrying 3 guard bits, at exponent e (the
\* guard bits counted in v), normalised and rounded.
RECURSIVE NormRound(_, _, _)
NormRound(s, e, v) ==
    IF v >= Pow2(27) THEN NormRound(s, e + 1, ShiftRightSticky(v, 1))
    ELSE IF v < Pow2(26) THEN NormRound(s, e - 1, 2 * v)
    ELSE Pack(s, e + 3, RoundEven(v \div 8, v % 8, 4))

\* a + b for finite non-zero a, b with |a| >= |b|.
AddOrdered(a, b) ==
    LET d == a.exp - b.exp
        A == a.man * 8
        B == ShiftRightSticky(b.man * 8, d)
        v == IF a.sgn = b.sgn THEN A + B ELSE A - B
    IN  IF v = 0 THEN Zero ELSE NormRound(a.sgn, a.exp - 3, v)

\* |a| >= |b| for finite non-zero values.
MagGe(a, b) == a.exp > b.exp \/ (a.exp = b.exp /\ a.man >= b.man)

\* a + b
F32Add(a, b) ==
    IF a.cls = "nan" \/ b.cls = "nan" THEN NaN
    ELSE IF a.cls = "inf"
         THEN (IF b.cls = "inf" /\ b.sgn # a.sgn THEN NaN ELSE a)
    ELSE IF b.cls = "inf" THEN b
    ELSE IF a.cls = "zero" THEN b
    ELSE IF b.cls = "zero" THEN a
    ELSE IF MagGe(a, b) THEN AddOrdered(a, b) ELSE AddOrdered(b, a)

F32Neg(a) == IF a.cls \in {"nan", "zero"} THEN a ELSE [a EXCEPT !.sgn = -a.sgn]

\* a - b
F32Sub(a, b) == F32Add(a, F32Neg(b))

F32Abs(a) == IF a.cls \in {"nan", "zero"} THEN a ELSE [a EXCEPT !.sgn = 1]

\* a < b (false when either is NaN)
F32Lt(a, b) ==
    IF a.cls = "nan" \/ b.cls = "nan" THEN FALSE
    ELSE LET sa == IF a.cls = "zero" THEN 0 ELSE a.sgn
             sb == IF b.cls = "zero" THEN 0 ELSE b.sgn
         IN  IF sa # sb THEN sa < sb
             ELSE IF sa = 0 THEN FALSE
             ELSE IF a.cls = "inf" \/ b.cls = "inf"
                  THEN (IF sa = 1 THEN a.cls = "fin" /\ b.cls = "inf"
                                  ELSE a.cls = "inf" /\ b.cls = "fin")
             ELSE IF sa = 1 THEN ~MagGe(a, b) ELSE ~MagGe(b, a)

\* a <= b (false when either is NaN)
F32Le(a, b) == a.cls # "nan" /\ b.cls # "nan" /\ ~F32Lt(b, a)

\* x.clamp(lo, hi): a NaN stays a NaN.
F32Clamp(x, lo, hi) ==
    IF F32Lt(x, lo) THEN lo ELSE IF F32Lt(hi, x) THEN hi ELSE x

I16Min == -32768

I16Max == 32767

\* x as i16: truncation toward zero, saturating at the ends of the range, NaN to 0.
F32ToI16(x) ==
    IF x.cls \in {"nan", "zero"} THEN 0
    ELSE IF x.cls = "inf" THEN (IF x.sgn = 1 THEN I16Max ELSE I16Min)
    ELSE IF x.exp >= 0 THEN (IF x.sgn = 1 THEN I16Max ELSE I16Min)
    ELSE IF x.exp <= -24 THEN 0
    ELSE LET t == x.sgn * (x.man \div Pow2(-x.exp))
         IN  IF t > I16Max THEN I16Max ELSE IF t < I16Min THEN I16Min ELSE t

One == I16ToF32(1)

\* f32::round followed by the cast to i16: the nearest integer, halves away
\* from zero, saturated to the i16 range.
F32RoundToI16(x) ==
    IF x.cls \in {"nan", "zero"} THEN 0
    ELSE IF x.cls = "inf" \/ x.exp >= 0 THEN (IF x.sgn = 1 THEN I16Max ELSE I16Min)
    ELSE IF x.exp <= -25 THEN 0
    ELSE LET d == Pow2(-x.exp)
             q == x.man \div d
             r == x.man % d
             t == x.sgn * (IF 2 * r >= d THEN q + 1 ELSE q)
         IN  IF t > I16Max THEN I16Max ELSE IF t < I16Min THEN I16Min ELSE t

----------------------------------------------------------------------------
(* i16 arithmetic *)

\* The two's-complement value of n in 16 bits.
Wrap16(n) == ((n + 32768) % 65536) - 32768

InI16(n) == I16Min <= n /\ n <= I16Max

\* An i16 operation whose exact result is n: with overflow checks (a debug
\* build) an out-of-range result panics, without them (a release build) it wraps.
I16Result(n, checks) ==
    IF InI16(n) THEN [panic |-> FALSE, val |-> n]
    ELSE IF checks THEN [panic |-> TRUE, val |-> 0]
    ELSE [panic |-> FALSE, val |-> Wrap16(n)]

\* steps.abs()
I16Abs(n, checks) == I16Result(Abs(n), checks)

\* a - b on i16
I16Sub(a, b, checks) == I16Result(a - b, checks)

----------------------------------------------------------------------------
(* Payloads and their decoding *)

\* A payload is its bytes: a decimal numeral (an optional '-', digits, and
\* `scale` of them after the point), the text "NaN", a word that is no
\* number, or bytes that are not UTF-8.
Dec(neg, digits, scale) ==
    [kind |-> "decimal", neg |-> neg, digits |-> digits, scale |-> scale]

NaNText == [kind |-> "nan_text", neg |-> FALSE, digits |-> 0, scale |-> 0]

Word == [kind |-> "word", neg |-> FALSE, digits |-> 0, scale |-> 0]

InvalidUtf8 == [kind |-> "invalid_utf8", neg |-> FALSE, digits |-> 0, scale |-> 0]

\* String::from_utf8(message.data().to_vec())
FromUtf8(payload) == payload.kind # "invalid_utf8"

\* payload.parse::<i16>(): an integer numeral within the i16 range.
ParseI16(payload) ==
    LET v == IF payload.neg THEN -payload.digits ELSE payload.digits
    IN  IF payload.kind = "decimal" /\ payload.scale = 0 /\ InI16(v)
        THEN [ok |-> TRUE, val |-> v]
        ELSE [ok |-> FALSE, val |-> 0]

\* payload.parse::<f32>(): the f32 nearest to the numeral's value; "NaN" parses.
ParseF32(payload) ==
    IF payload.kind = "nan_text" THEN [ok |-> TRUE, val |-> NaN]
    ELSE IF payload.kind # "decimal" THEN [ok |-> FALSE, val |-> Zero]
    ELSE IF payload.digits = 0 THEN [ok |-> TRUE, val |-> Zero]
    ELSE [ok |-> TRUE,
          val |-> RoundedQuotient(IF payload.neg THEN -1 ELSE 1,
                                  payload.digits, 10 ^ payload.scale, 0)]

----------------------------------------------------------------------------
(* Topics *)

HexDigits == <<"0", "1", "2", "3", "4", "5", "6", "7",
               "8", "9", "a", "b", "c", "d", "e", "f">>

\* format!("{:02x}", b)
Hex2(b) == <<HexDigits[(b \div 16) + 1], HexDigits[(b % 16) + 1]>>

\* .join(":")
RECURSIVE JoinColon(_)
JoinColon(parts) ==
    IF Len(parts) = 0 THEN <<>>
    ELSE IF Len(parts) = 1 THEN parts[1]
    ELSE parts[1] \o <<":">> \o JoinColon(Tail(parts))

\* The station MAC address of the device the model runs on.
MacAddress == <<36, 111, 40, 170, 187, 1>>

MacAddressStr == JoinColon([i \in 1..Len(MacAddress) |-> Hex2(MacAddress[i])])

\* format!("/curtains/{}", mac_address_str)
TopicPrefixValue ==
    <<"/", "c", "u", "r", "t", "a", "i", "n", "s", "/">> \o MacAddressStr

StepPath == <<"/", "s", "t", "e", "p">>

SetPositionPath ==
    <<"/", "s", "e", "t", "-", "p", "o", "s", "i", "t", "i", "o", "n">>

PositionPath == <<"/", "p", "o", "s", "i", "t", "i", "o", "n">>

\* topic.replace(pat, ""): every non-overlapping match of pat, left to right,
\* is removed.
RECURSIVE StrReplaceEmpty(_, _)
StrReplaceEmpty(s, pat) ==
    IF Len(pat) = 0 \/ Len(s) < Len(pat) THEN s
    ELSE IF SubSeq(s, 1, Len(pat)) = pat
         THEN StrReplaceEmpty(SubSeq(s, Len(pat) + 1, Len(s)), pat)
         ELSE <<Head(s)>> \o StrReplaceEmpty(Tail(s), pat)

----------------------------------------------------------------------------
(* The motor controller *)

STEPS_TO_FULLY_OPEN == 4600

\* direction_pin.set_high() / set_low(): one write of the direction line.
DirWrite(level) == [pin |-> "direction", level |-> level, times |-> 1]

\* n iterations of the pulse loop: the step line driven high, then low, n times.
StepPulses(n) == [pin |-> "step", level |-> "high_low", times |-> n]

\* What one call of a handler or of the homing sequence works on: the stored
\* position, the direction line, and a log of the call (its GPIO writes in
\* order, the arguments step_motor was called with, the relative path and the
\* match arm taken, and the panic that ended it, if any).
Machine(position, direction) ==
    [position |-> position, direction |-> direction, panic |-> "none",
     gpio |-> <<>>, calls |-> <<>>, rel |-> <<>>, branch |-> "none"]

\* *current_position + steps as f32 / STEPS_TO_FULLY_OPEN as f32
UnclampedPosition(current, steps) ==
    F32Add(current, F32Div(I16ToF32(steps), I16ToF32(STEPS_TO_FULLY_OPEN)))

\* A step_motor that commits the sum without clamping it.
NewPositionUnclamped(current, steps) == UnclampedPosition(current, steps)

\* (*current_position + steps as f32 / STEPS_TO_FULLY_OPEN as f32).clamp(0.0, 1.0)
NewPosition(current, steps) ==
    F32Clamp(UnclampedPosition(current, steps), Zero, One)

\* A step_motor whose loop runs one iteration short (1..steps.abs()).
step_motor_short(m, steps, checks) ==
    LET level == IF steps > 0 THEN "high" ELSE "low"
        m1 == [m EXCEPT !.calls = Append(@, steps),
                        !.direction = level,
                        !.gpio = Append(@, DirWrite(level))]
        n == I16Abs(steps, checks)
    IN  IF n.panic THEN [m1 EXCEPT !.panic = "abs_overflow"]
        ELSE [m1 EXCEPT
                !.gpio = IF n.val > 1 THEN Append(@, StepPulses(n.val - 1)) ELSE @,
                !.position = NewPosition(m.position, steps)]

step_motor(m, steps, checks) ==
    LET level == IF steps > 0 THEN "high" ELSE "low"
        m1 == [m EXCEPT !.calls = Append(@, steps),
                        !.direction = level,
                        !.gpio = Append(@, DirWrite(level))]
        n == I16Abs(steps, checks)
    IN  IF n.panic THEN [m1 EXCEPT !.panic = "abs_overflow"]
        ELSE [m1 EXCEPT
                !.gpio = IF n.val > 0 THEN Append(@, StepPulses(n.val)) ELSE @,
                !.position = NewPosition(m.position, steps)]

\* (x * STEPS_TO_FULLY_OPEN as f32) as i16
AsSteps(x) == F32ToI16(F32Mul(x, I16ToF32(STEPS_TO_FULLY_OPEN)))

set_position(m, position, checks) ==
    LET current_position_as_steps == AsSteps(m.position)
        delta_steps == I16Sub(AsSteps(position), current_position_as_steps, checks)
    IN  IF delta_steps.panic THEN [m EXCEPT !.panic = "sub_overflow"]
        ELSE step_motor(m, delta_steps.val, checks)

\* A homing sequence that runs the motor the wrong way.
homing_sequence_forward(m, checks) ==
    LET m1 == step_motor(m, STEPS_TO_FULLY_OPEN, checks)
    IN  IF m1.panic # "none" THEN m1 ELSE [m1 EXCEPT !.position = Zero]

homing_sequence(m, checks) ==
    LET m1 == step_motor(m, -STEPS_TO_FULLY_OPEN, checks)
    IN  IF m1.panic # "none" THEN m1 ELSE [m1 EXCEPT !.position = Zero]

\* A match whose decode failures fall back to the default value instead
\* of ending the call (unwrap_or_default for unwrap).
DispatchDefaultOnError(m, topic, payload, checks) ==
    IF topic = StepPath
    THEN LET steps == ParseI16(payload)
         IN  step_motor([m EXCEPT !.branch = "step"],
                        IF FromUtf8(payload) /\ steps.ok THEN steps.val ELSE 0,
                        checks)
    ELSE IF topic = SetPositionPath
    THEN LET position == ParseF32(payload)
         IN  set_position([m EXCEPT !.branch = "set_position"],
                          IF FromUtf8(payload) /\ position.ok
                          THEN position.val ELSE Zero,
                          checks)
    ELSE [m EXCEPT !.branch = "unknown"]

\* A match whose set-position arm also takes every other path
\* ("/set-position" | _).
DispatchCatchAll(m, topic, payload, checks) ==
    IF topic = StepPath
    THEN LET m1 == [m EXCEPT !.branch = "step"]
             steps == ParseI16(payload)
         IN  IF ~FromUtf8(payload) THEN [m1 EXCEPT !.panic = "from_utf8"]
             ELSE IF ~steps.ok THEN [m1 EXCEPT !.panic = "parse"]
             ELSE step_motor(m1, steps.val, checks)
    ELSE LET m1 == [m EXCEPT !.branch = "set_position"]
             position == ParseF32(payload)
         IN  IF ~FromUtf8(payload) THEN [m1 EXCEPT !.panic = "from_utf8"]
             ELSE IF ~position.ok THEN [m1 EXCEPT !.panic = "parse"]
             ELSE set_position(m1, position.val, checks)

\* The match on the relative path.
Dispatch(m, topic, payload, checks) ==
    IF topic = StepPath
    THEN LET m1 == [m EXCEPT !.branch = "step"]
             steps == ParseI16(payload)
         IN  IF ~FromUtf8(payload) THEN [m1 EXCEPT !.panic = "from_utf8"]
             ELSE IF ~steps.ok THEN [m1 EXCEPT !.panic = "parse"]
             ELSE step_motor(m1, steps.val, checks)
    ELSE IF topic = SetPositionPath
    THEN LET m1 == [m EXCEPT !.branch = "set_position"]
             position == ParseF32(payload)
         IN  IF ~FromUtf8(payload) THEN [m1 EXCEPT !.panic = "from_utf8"]
             ELSE IF ~position.ok THEN [m1 EXCEPT !.panic = "parse"]
             ELSE set_position(m1, position.val, checks)
    ELSE [m EXCEPT !.branch = "unknown"]

\* An event of the MQTT client: Received carries a topic (absent on the later
\* chunks of a fragmented message) and a payload.
Event(kind, topic, payload) == [kind |-> kind, topic |-> topic, payload |-> payload]

SomeTopic(str) == [some |-> TRUE, str |-> str]

NoTopic == [some |-> FALSE, str |-> <<>>]

on_message_received(m, message, prefix, checks) ==
    IF message.kind # "received" THEN m
    ELSE IF ~prefix.set THEN [m EXCEPT !.panic = "topic_prefix_unset"]
    ELSE IF ~message.topic.some THEN [m EXCEPT !.panic = "topic_none"]
    ELSE LET topic == StrReplaceEmpty(message.topic.str, prefix.value)
         IN  Dispatch([m EXCEPT !.rel = topic], topic, message.payload, checks)

----------------------------------------------------------------------------
(* The program: main, the MQTT client's callback, the telemetry loop *)

VARIABLES
    mainPc,            \* the statement main executes next
    TOPIC_PREFIX,      \* the OnceLock: unset, or the prefix
    CURRENT_POSITION,  \* the stored position, an f32
    direction_pin,     \* level of the direction line
    panicked,          \* "none", or the panic that aborted the process
    overflow_checks,   \* the build: TRUE with overflow checks (debug), FALSE without
    homing,            \* how often homing_sequence ran, its GPIO writes, and
                       \* the position it left
    last,              \* the last event the callback handled, and what it did
    handled,           \* events handled so far
    published,         \* telemetry publishes so far and the last value read
    lock,              \* the thread that holds CURRENT_POSITION's mutex, or "none"
    frame,             \* per thread: where it is inside step_motor,
                       \* set_position or homing_sequence, and its locals
    tel                \* the telemetry loop: where it is in a round, the
                       \* value it read

vars == <<mainPc, TOPIC_PREFIX, CURRENT_POSITION, direction_pin, panicked,
          overflow_checks, homing, last, handled, published, lock, frame, tel>>

\* What only the statement-level steps of the threads change.
threadVars == <<lock, frame, tel>>

\* main (homing, then the telemetry loop) and the MQTT client's task, which
\* runs the callback.
Threads == {"main", "callback"}

\* A thread outside step_motor, set_position and homing_sequence.
IdleFrame ==
    [pc |-> "idle", fn |-> "none", steps |-> 0, remaining |-> 0,
     target |-> Zero, cur |-> 0, log |-> Machine(Zero, "low")]

\* Events the callback handles, and telemetry publishes, in one run.
MaxEvents == 2

MaxPublishes == 1

\* Topics the broker delivers under the subscription <prefix>/#: the two
\* commands, the device's own telemetry topic, and a topic that holds the
\* prefix a second time.
Topics ==
    { SomeTopic(TopicPrefixValue \o StepPath),
      SomeTopic(TopicPrefixValue \o SetPositionPath),
      SomeTopic(TopicPrefixValue \o PositionPath),
      SomeTopic(TopicPrefixValue \o <<"/", "s", "t">> \o TopicPrefixValue
                \o <<"e", "p">>),
      NoTopic }

\* "0", "-100", "32767", "-32768", "0.024", "0.25", "0.5", "0.9999", "NaN",
\* a word, and bytes that are not UTF-8.
Payloads ==
    { Dec(FALSE, 0, 0), Dec(TRUE, 100, 0), Dec(FALSE, 32767, 0),
      Dec(TRUE, 32768, 0), Dec(FALSE, 24, 3), Dec(FALSE, 25, 2),
      Dec(FALSE, 5, 1), Dec(FALSE, 9999, 4), NaNText, Word, InvalidUtf8 }

ReceivedEvents == { Event("received", t, p) : t \in Topics, p \in Payloads }

\* Connected, Err and every other event carry nothing the callback reads.
OtherEvents ==
    { Event(k, NoTopic, Word) : k \in {"connected", "error", "other"} }

NoEvent == Event("none", NoTopic, Word)

Running == panicked = "none"

Init ==
    /\ mainPc = "homing_sequence"
    /\ TOPIC_PREFIX = [set |-> FALSE, value |-> <<>>]
    /\ CURRENT_POSITION = Zero
    /\ direction_pin = "low"
    /\ panicked = "none"
    /\ overflow_checks \in BOOLEAN
    /\ homing = [runs |-> 0, gpio |-> <<>>, position |-> Zero]
    /\ last = [event |-> NoEvent, posBefore |-> Zero, dirBefore |-> "low",
               log |-> Machine(Zero, "low")]
    /\ handled = 0
    /\ published = [count |-> 0, value |-> Zero]
    /\ lock = "none"
    /\ frame = [t \in Threads |-> IdleFrame]
    /\ tel = [pc |-> "sleep", value |-> Zero, seen |-> 0, inflight |-> FALSE]

\* main, line 71: homing_sequence(&mut step_pin, &mut direction_pin)
MainHoming ==
    /\ Running
    /\ mainPc = "homing_sequence"
    /\ LET m == homing_sequence(Machine(CURRENT_POSITION, direction_pin),
                                overflow_checks)
       IN  /\ CURRENT_POSITION' = m.position
           /\ direction_pin' = m.direction
           /\ panicked' = m.panic
           /\ homing' = [runs |-> homing.runs + 1, gpio |-> m.gpio,
                         position |-> m.position]
    /\ mainPc' = "mqtt_new"
    /\ UNCHANGED <<TOPIC_PREFIX, overflow_checks, last, handled, published>>
    /\ UNCHANGED threadVars

\* A main that creates the client, and with it the callback, before homing.
MainMqttNewBeforeHoming ==
    /\ Running
    /\ mainPc \in {"homing_sequence", "mqtt_new"}
    /\ mainPc' = "set_prefix"
    /\ UNCHANGED <<TOPIC_PREFIX, CURRENT_POSITION, direction_pin, panicked,
                   overflow_checks, homing, last, handled, published>>
    /\ UNCHANGED threadVars

\* main, lines 73-76: EspMqttClient::new with the callback
MainMqttNew ==
    /\ Running
    /\ mainPc = "mqtt_new"
    /\ mainPc' = "set_prefix"
    /\ UNCHANGED <<TOPIC_PREFIX, CURRENT_POSITION, direction_pin, panicked,
                   overflow_checks, homing, last, handled, published>>
    /\ UNCHANGED threadVars

\* A main that subscribes without having set the prefix.
MainSetPrefixSkipped ==
    /\ Running
    /\ mainPc = "set_prefix"
    /\ mainPc' = "subscribe"
    /\ UNCHANGED <<TOPIC_PREFIX, CURRENT_POSITION, direction_pin, panicked,
                   overflow_checks, homing, last, handled, published>>
    /\ UNCHANGED threadVars

\* main, lines 92-93: TOPIC_PREFIX.set(Some(topic_prefix.clone())).unwrap()
MainSetPrefix ==
    /\ Running
    /\ mainPc = "set_prefix"
    /\ IF TOPIC_PREFIX.set
       THEN /\ panicked' = "topic_prefix_set_twice"
            /\ UNCHANGED TOPIC_PREFIX
       ELSE /\ TOPIC_PREFIX' = [set |-> TRUE, value |-> TopicPrefixValue]
            /\ UNCHANGED panicked
    /\ mainPc' = "subscribe"
    /\ UNCHANGED <<CURRENT_POSITION, direction_pin, overflow_checks, homing,
                   last, handled, published>>
    /\ UNCHANGED threadVars

\* main, lines 95-100: subscribe to <prefix>/#
MainSubscribe ==
    /\ Running
    /\ mainPc = "subscribe"
    /\ mainPc' = "loop"
    /\ UNCHANGED <<TOPIC_PREFIX, CURRENT_POSITION, direction_pin, panicked,
                   overflow_checks, homing, last, handled, published>>
    /\ UNCHANGED threadVars

\* main, lines 105-114: one round of the telemetry loop. The publish may fail,
\* and its unwrap then panics.
MainPublish ==
    /\ Running
    /\ mainPc = "loop"
    /\ published.count < MaxPublishes
    /\ \E ok \in BOOLEAN :
         IF ok
         THEN /\ published' = [count |-> published.count + 1,
                               value |-> CURRENT_POSITION]
              /\ UNCHANGED panicked
         ELSE /\ panicked' = "publish"
              /\ UNCHANGED published
    /\ UNCHANGED <<mainPc, TOPIC_PREFIX, CURRENT_POSITION, direction_pin,
                   overflow_checks, homing, last, handled>>
    /\ UNCHANGED threadVars

\* The client exists from EspMqttClient::new on; the broker delivers messages
\* only once the subscription is made.
ClientCreated == mainPc \in {"set_prefix", "subscribe", "loop"}

Subscribed == mainPc = "loop"

\* One call of the callback, run to its end.
Handle(message) ==
    /\ Running
    /\ handled < MaxEvents
    /\ LET m == on_message_received(Machine(CURRENT_POSITION, direction_pin),
                                    message, TOPIC_PREFIX, overflow_checks)
       IN  /\ CURRENT_POSITION' = m.position
           /\ direction_pin' = m.direction
           /\ panicked' = m.panic
           /\ last' = [event |-> message, posBefore |-> CURRENT_POSITION,
                       dirBefore |-> direction_pin, log |-> m]
    /\ handled' = handled + 1
    /\ UNCHANGED <<mainPc, TOPIC_PREFIX, overflow_checks, homing, published>>
    /\ UNCHANGED threadVars

\* The callback on Event::Received
OnReceived ==
    /\ Subscribed
    /\ \E message \in ReceivedEvents : Handle(message)

\* The callback on Connected, Err and any other event
OnOtherEvent ==
    /\ ClientCreated
    /\ \E message \in OtherEvents : Handle(message)

Next ==
    \/ MainHoming
    \/ MainMqttNew
    \/ MainSetPrefix
    \/ MainSubscribe
    \/ MainPublish
    \/ OnReceived
    \/ OnOtherEvent

Spec == Init /\ [][Next]_vars

----------------------------------------------------------------------------
(* The same program, one step per statement: the pulse loop, the mutex of
   CURRENT_POSITION and the telemetry read interleave *)

\* Messages of the statement-level runs, with short pulse sequences:
\* /step "2", "-32768" and a word, /set-position "0.001", and "2" on the
\* telemetry topic.
ThreadReceived ==
    { Event("received", SomeTopic(TopicPrefixValue \o StepPath),
            Dec(FALSE, 2, 0)),
      Event("received", SomeTopic(TopicPrefixValue \o StepPath),
            Dec(TRUE, 32768, 0)),
      Event("received", SomeTopic(TopicPrefixValue \o StepPath),
            Word),
      Event("received", SomeTopic(TopicPrefixValue \o SetPositionPath),
            Dec(FALSE, 1, 3)),
      Event("received", SomeTopic(TopicPrefixValue \o PositionPath),
            Dec(FALSE, 2, 0)) }

\* on_message_received up to the call it makes (lines 123-143): the call, its
\* argument, and the log so far.
Decode(m, message, prefix) ==
    LET none == [call |-> "none", steps |-> 0, target |-> Zero, log |-> m]
    IN  IF message.kind # "received" THEN none
        ELSE IF ~prefix.set
        THEN [none EXCEPT !.log = [m EXCEPT !.panic = "topic_prefix_unset"]]
        ELSE IF ~message.topic.some
        THEN [none EXCEPT !.log = [m EXCEPT !.panic = "topic_none"]]
        ELSE
          LET topic == StrReplaceEmpty(message.topic.str, prefix.value)
              m0 == [m EXCEPT !.rel = topic]
              bad == IF FromUtf8(message.payload) THEN "parse" ELSE "from_utf8"
          IN  IF topic = StepPath
              THEN LET steps == ParseI16(message.payload)
                       m1 == [m0 EXCEPT !.branch = "step"]
                   IN  IF FromUtf8(message.payload) /\ steps.ok
                       THEN [none EXCEPT !.call = "step_motor",
                                         !.steps = steps.val, !.log = m1]
                       ELSE [none EXCEPT !.log = [m1 EXCEPT !.panic = bad]]
              ELSE IF topic = SetPositionPath
              THEN LET position == ParseF32(message.payload)
                       m1 == [m0 EXCEPT !.branch = "set_position"]
                   IN  IF FromUtf8(message.payload) /\ position.ok
                       THEN [none EXCEPT !.call = "set_position",
                                         !.target = position.val, !.log = m1]
                       ELSE [none EXCEPT !.log = [m1 EXCEPT !.panic = bad]]
              ELSE [none EXCEPT !.log = [m0 EXCEPT !.branch = "unknown"]]

\* The callback's log is what `last` shows of the call in progress.
Logged(t, log) ==
    last' = IF t = "callback" THEN [last EXCEPT !.log = log] ELSE last

\* The callback on Event::Received, up to its call of step_motor or
\* set_position. The client's task runs one callback at a time.
CallbackReceived ==
    /\ Running
    /\ Subscribed
    /\ frame["callback"].pc = "idle"
    /\ handled < MaxEvents
    /\ \E message \in ThreadReceived :
         LET d == Decode(Machine(CURRENT_POSITION, direction_pin), message,
                         TOPIC_PREFIX)
         IN  /\ last' = [event |-> message, posBefore |-> CURRENT_POSITION,
                         dirBefore |-> direction_pin, log |-> d.log]
             /\ panicked' = d.log.panic
             /\ frame' = [frame EXCEPT !["callback"] =
                    IF d.call = "step_motor"
                    THEN [IdleFrame EXCEPT !.pc = "direction", !.fn = "step",
                                           !.steps = d.steps, !.log = d.log]
                    ELSE IF d.call = "set_position"
                    THEN [IdleFrame EXCEPT !.pc = "sp_lock",
                                           !.fn = "set_position",
                                           !.target = d.target, !.log = d.log]
                    ELSE IdleFrame]
    /\ handled' = handled + 1
    /\ UNCHANGED <<mainPc, TOPIC_PREFIX, CURRENT_POSITION, direction_pin,
                   overflow_checks, homing, published, lock, tel>>

\* The callback on Connected, Err and any other event
CallbackOtherEvent ==
    /\ frame["callback"].pc = "idle"
    /\ OnOtherEvent

\* set_position, line 196: CURRENT_POSITION.lock().unwrap()
SetPositionLock(t) ==
    /\ Running
    /\ frame[t].pc = "sp_lock"
    /\ lock = "none"
    /\ lock' = t
    /\ frame' = [frame EXCEPT ![t].pc = "sp_read"]
    /\ UNCHANGED <<mainPc, TOPIC_PREFIX, CURRENT_POSITION, direction_pin,
                   panicked, overflow_checks, homing, last, handled, published,
                   tel>>

\* set_position, line 197: the position read as steps
SetPositionRead(t) ==
    /\ Running
    /\ frame[t].pc = "sp_read"
    /\ frame' = [frame EXCEPT ![t].pc = "sp_drop",
                              ![t].cur = AsSteps(CURRENT_POSITION)]
    /\ UNCHANGED <<mainPc, TOPIC_PREFIX, CURRENT_POSITION, direction_pin,
                   panicked, overflow_checks, homing, last, handled, published,
                   lock, tel>>

\* A set_position without line 198: the guard lives to the end of the function.
SetPositionKeepsGuard(t) ==
    /\ Running
    /\ frame[t].pc = "sp_drop"
    /\ frame' = [frame EXCEPT ![t].pc = "sp_delta"]
    /\ UNCHANGED <<mainPc, TOPIC_PREFIX, CURRENT_POSITION, direction_pin,
                   panicked, overflow_checks, homing, last, handled, published,
                   lock, tel>>

\* set_position, line 198: drop(current_position)
SetPositionDrop(t) ==
    /\ Running
    /\ frame[t].pc = "sp_drop"
    /\ lock' = "none"
    /\ frame' = [frame EXCEPT ![t].pc = "sp_delta"]
    /\ UNCHANGED <<mainPc, TOPIC_PREFIX, CURRENT_POSITION, direction_pin,
                   panicked, overflow_checks, homing, last, handled, published,
                   tel>>

\* set_position, lines 200-206: delta_steps, then the call of step_motor
SetPositionDelta(t) ==
    /\ Running
    /\ frame[t].pc = "sp_delta"
    /\ LET delta_steps == I16Sub(AsSteps(frame[t].target), frame[t].cur,
                                 overflow_checks)
           log == [frame[t].log EXCEPT !.panic = "sub_overflow"]
       IN  IF delta_steps.panic
           THEN /\ panicked' = "sub_overflow"
                /\ frame' = [frame EXCEPT ![t].log = log]
                /\ Logged(t, log)
           ELSE /\ frame' = [frame EXCEPT ![t].pc = "direction",
                                          ![t].steps = delta_steps.val]
                /\ UNCHANGED <<panicked, last>>
    /\ UNCHANGED <<mainPc, TOPIC_PREFIX, CURRENT_POSITION, direction_pin,
                   overflow_checks, homing, handled, published, lock, tel>>

\* A step_motor that takes the lock above the pulse loop instead of below it.
StepMotorDirectionLocking(t) ==
    /\ Running
    /\ frame[t].pc = "direction"
    /\ lock = "none"
    /\ lock' = t
    /\ LET steps == frame[t].steps
           level == IF steps > 0 THEN "high" ELSE "low"
           n == I16Abs(steps, overflow_checks)
           log == [frame[t].log EXCEPT !.calls = Append(@, steps),
                                       !.direction = level,
                                       !.gpio = Append(@, DirWrite(level))]
       IN  /\ direction_pin' = level
           /\ IF n.panic
              THEN /\ panicked' = "abs_overflow"
                   /\ frame' = [frame EXCEPT
                          ![t].log = [log EXCEPT !.panic = "abs_overflow"]]
                   /\ Logged(t, [log EXCEPT !.panic = "abs_overflow"])
              ELSE /\ frame' = [frame EXCEPT
                          ![t].log = log,
                          ![t].remaining = IF n.val > 0 THEN n.val ELSE 0,
                          ![t].pc = IF n.val > 0 THEN "pulse" ELSE "commit"]
                   /\ Logged(t, log)
                   /\ UNCHANGED panicked
    /\ UNCHANGED <<mainPc, TOPIC_PREFIX, CURRENT_POSITION, overflow_checks,
                   homing, handled, published, tel>>

\* step_motor, lines 170-176: the direction write, and the bound of the loop
StepMotorDirection(t) ==
    /\ Running
    /\ frame[t].pc = "direction"
    /\ LET steps == frame[t].steps
           level == IF steps > 0 THEN "high" ELSE "low"
           n == I16Abs(steps, overflow_checks)
           log == [frame[t].log EXCEPT !.calls = Append(@, steps),
                                       !.direction = level,
                                       !.gpio = Append(@, DirWrite(level))]
       IN  /\ direction_pin' = level
           /\ IF n.panic
              THEN /\ panicked' = "abs_overflow"
                   /\ frame' = [frame EXCEPT
                          ![t].log = [log EXCEPT !.panic = "abs_overflow"]]
                   /\ Logged(t, [log EXCEPT !.panic = "abs_overflow"])
              ELSE /\ frame' = [frame EXCEPT
                          ![t].log = log,
                          ![t].remaining = IF n.val > 0 THEN n.val ELSE 0,
                          ![t].pc = IF n.val > 0 THEN "pulse" ELSE "lock"]
                   /\ Logged(t, log)
                   /\ UNCHANGED panicked
    /\ UNCHANGED <<mainPc, TOPIC_PREFIX, CURRENT_POSITION, overflow_checks,
                   homing, handled, published, lock, tel>>

\* One more pulse in the log of GPIO writes.
Pulsed(gpio) ==
    IF gpio # <<>> /\ gpio[Len(gpio)].pin = "step"
    THEN [gpio EXCEPT ![Len(gpio)].times = @ + 1]
    ELSE Append(gpio, StepPulses(1))

\* A step_motor that moves the stored position along with every pulse.
StepMotorPulseCommitting(t) ==
    /\ Running
    /\ frame[t].pc = "pulse"
    /\ CURRENT_POSITION' =
          NewPosition(CURRENT_POSITION, IF frame[t].steps > 0 THEN 1 ELSE -1)
    /\ LET log == [frame[t].log EXCEPT !.gpio = Pulsed(@)]
       IN  /\ frame' = [frame EXCEPT
                  ![t].log = log,
                  ![t].remaining = @ - 1,
                  ![t].pc = IF frame[t].remaining = 1 THEN "lock" ELSE "pulse"]
           /\ Logged(t, log)
    /\ UNCHANGED <<mainPc, TOPIC_PREFIX, direction_pin, panicked,
                   overflow_checks, homing, handled, published, lock, tel>>

\* step_motor, lines 176-181: one iteration of the pulse loop
StepMotorPulse(t) ==
    /\ Running
    /\ frame[t].pc = "pulse"
    /\ LET log == [frame[t].log EXCEPT !.gpio = Pulsed(@)]
       IN  /\ frame' = [frame EXCEPT
                  ![t].log = log,
                  ![t].remaining = @ - 1,
                  ![t].pc = IF frame[t].remaining = 1 THEN "lock" ELSE "pulse"]
           /\ Logged(t, log)
    /\ UNCHANGED <<mainPc, TOPIC_PREFIX, CURRENT_POSITION, direction_pin,
                   panicked, overflow_checks, homing, handled, published, lock,
                   tel>>

\* step_motor, line 182: CURRENT_POSITION.lock().unwrap()
StepMotorLock(t) ==
    /\ Running
    /\ frame[t].pc = "lock"
    /\ lock = "none"
    /\ lock' = t
    /\ frame' = [frame EXCEPT ![t].pc = "commit"]
    /\ UNCHANGED <<mainPc, TOPIC_PREFIX, CURRENT_POSITION, direction_pin,
                   panicked, overflow_checks, homing, last, handled, published,
                   tel>>

\* step_motor, lines 184-188: the new position is computed and stored under
\* the lock; the guard drops as the function returns.
StepMotorCommit(t) ==
    /\ Running
    /\ frame[t].pc = "commit"
    /\ LET new_position == NewPosition(CURRENT_POSITION, frame[t].steps)
           log == [frame[t].log EXCEPT !.position = new_position]
       IN  /\ CURRENT_POSITION' = new_position
           /\ frame' = [frame EXCEPT ![t] =
                  IF frame[t].fn = "homing"
                  THEN [@ EXCEPT !.pc = "home_lock", !.log = log]
                  ELSE IdleFrame]
           /\ Logged(t, log)
    /\ lock' = "none"
    /\ UNCHANGED <<mainPc, TOPIC_PREFIX, direction_pin, panicked,
                   overflow_checks, homing, handled, published, tel>>

\* main, line 71, homing_sequence, line 220: step_motor(-STEPS_TO_FULLY_OPEN)
HomingCall ==
    /\ Running
    /\ mainPc = "homing_sequence"
    /\ frame["main"].pc = "idle"
    /\ frame' = [frame EXCEPT !["main"] =
           [IdleFrame EXCEPT !.pc = "direction", !.fn = "homing",
                             !.steps = -STEPS_TO_FULLY_OPEN,
                             !.log = Machine(CURRENT_POSITION, direction_pin)]]
    /\ UNCHANGED <<mainPc, TOPIC_PREFIX, CURRENT_POSITION, direction_pin,
                   panicked, overflow_checks, homing, last, handled, published,
                   lock, tel>>

\* homing_sequence, line 222: CURRENT_POSITION.lock().unwrap()
HomingLock ==
    /\ Running
    /\ frame["main"].pc = "home_lock"
    /\ lock = "none"
    /\ lock' = "main"
    /\ frame' = [frame EXCEPT !["main"].pc = "home_commit"]
    /\ UNCHANGED <<mainPc, TOPIC_PREFIX, CURRENT_POSITION, direction_pin,
                   panicked, overflow_checks, homing, last, handled, published,
                   tel>>

\* homing_sequence, lines 223-224: the position is set to 0.0, the guard drops
HomingCommit ==
    /\ Running
    /\ frame["main"].pc = "home_commit"
    /\ CURRENT_POSITION' = Zero
    /\ lock' = "none"
    /\ homing' = [runs |-> homing.runs + 1, gpio |-> frame["main"].log.gpio,
                  position |-> Zero]
    /\ frame' = [frame EXCEPT !["main"] = IdleFrame]
    /\ mainPc' = "mqtt_new"
    /\ UNCHANGED <<TOPIC_PREFIX, direction_pin, panicked, overflow_checks,
                   last, handled, published, tel>>

\* main, line 106: the sleep of a round ends
TelemetryWake ==
    /\ Running
    /\ mainPc = "loop"
    /\ tel.pc = "sleep"
    /\ published.count < MaxPublishes
    /\ tel' = [tel EXCEPT !.pc = "lock"]
    /\ UNCHANGED <<mainPc, TOPIC_PREFIX, CURRENT_POSITION, direction_pin,
                   panicked, overflow_checks, homing, last, handled, published,
                   lock, frame>>

\* main, line 112: CURRENT_POSITION.lock().unwrap()
TelemetryLock ==
    /\ Running
    /\ tel.pc = "lock"
    /\ lock = "none"
    /\ lock' = "main"
    /\ tel' = [tel EXCEPT !.pc = "read"]
    /\ UNCHANGED <<mainPc, TOPIC_PREFIX, CURRENT_POSITION, direction_pin,
                   panicked, overflow_checks, homing, last, handled, published,
                   frame>>

\* main, line 112: format! reads the position through the guard, which drops
\* when format! returns, before publish is called.
TelemetryRead ==
    /\ Running
    /\ tel.pc = "read"
    /\ tel' = [pc |-> "publish", value |-> CURRENT_POSITION, seen |-> handled,
               inflight |-> frame["callback"].pc # "idle"]
    /\ lock' = "none"
    /\ UNCHANGED <<mainPc, TOPIC_PREFIX, CURRENT_POSITION, direction_pin,
                   panicked, overflow_checks, homing, last, handled, published,
                   frame>>

\* main, lines 108-113: publish(...).unwrap()
TelemetryPublish ==
    /\ Running
    /\ tel.pc = "publish"
    /\ \E ok \in BOOLEAN :
         IF ok
         THEN /\ published' = [count |-> published.count + 1,
                               value |-> tel.value]
              /\ tel' = [tel EXCEPT !.pc = "sleep"]
              /\ UNCHANGED panicked
         ELSE /\ panicked' = "publish"
              /\ UNCHANGED <<published, tel>>
    /\ UNCHANGED <<mainPc, TOPIC_PREFIX, CURRENT_POSITION, direction_pin,
                   overflow_checks, homing, last, handled, lock, frame>>

ThreadNext ==
    \/ HomingCall
    \/ HomingLock
    \/ HomingCommit
    \/ MainMqttNew
    \/ MainSetPrefix
    \/ MainSubscribe
    \/ TelemetryWake
    \/ TelemetryLock
    \/ TelemetryRead
    \/ TelemetryPublish
    \/ CallbackReceived
    \/ CallbackOtherEvent
    \/ \E t \in Threads : SetPositionLock(t)
    \/ \E t \in Threads : SetPositionRead(t)
    \/ \E t \in Threads : SetPositionDrop(t)
    \/ \E t \in Threads : SetPositionDelta(t)
    \/ \E t \in Threads : StepMotorDirection(t)
    \/ \E t \in Threads : StepMotorPulse(t)
    \/ \E t \in Threads : StepMotorLock(t)
    \/ \E t \in Threads : StepMotorCommit(t)

ThreadSpec == Init /\ [][ThreadNext]_vars

----------------------------------------------------------------------------
(* Properties *)

\* The controller's operating state: Homing until homing_sequence has run,
\* Ready from then on, unless a panic has aborted the process.
ControllerState ==
    IF ~Running THEN "Aborted"
    ELSE IF homing.runs = 0 THEN "Homing" ELSE "Ready"

StepsF32 == I16ToF32(STEPS_TO_FULLY_OPEN)

StepTopic == SomeTopic(TopicPrefixValue \o StepPath)

SetPositionTopic == SomeTopic(TopicPrefixValue \o SetPositionPath)

\* The last event was a message on <prefix>/step.
LastOnStep == last.event.kind = "received" /\ last.event.topic = StepTopic

\* The last event was a message on <prefix>/set-position.
LastOnSetPosition ==
    last.event.kind = "received" /\ last.event.topic = SetPositionTopic

\* The payload of the last event decodes as the number its topic asks for.
LastStepsDecode ==
    FromUtf8(last.event.payload) /\ ParseI16(last.event.payload).ok

LastTargetDecodes ==
    FromUtf8(last.event.payload) /\ ParseF32(last.event.payload).ok

LastSteps == ParseI16(last.event.payload).val

LastTarget == ParseF32(last.event.payload).val

\* The last event was a command whose payload is no number.
LastDecodeError ==
    \/ LastOnStep /\ ~LastStepsDecode
    \/ LastOnSetPosition /\ ~LastTargetDecodes

\* The last event was a message whose relative path, the topic with the
\* prefix removed as line 129 removes it, is neither command.
LastUnrecognized ==
    /\ last.event.kind = "received"
    /\ last.event.topic.some
    /\ StrReplaceEmpty(last.event.topic.str, TopicPrefixValue)
          \notin {StepPath, SetPositionPath}

\* Step pulses among a call's GPIO writes.
RECURSIVE PulseCount(_)
PulseCount(gpio) ==
    IF gpio = <<>> THEN 0
    ELSE (IF Head(gpio).pin = "step" THEN Head(gpio).times ELSE 0)
         + PulseCount(Tail(gpio))

\* C1: in every reachable state the stored position lies in [0.0, 1.0].
C1_PositionInUnitInterval ==
    F32Le(Zero, CURRENT_POSITION) /\ F32Le(CURRENT_POSITION, One)

\* A step was committed whose unclamped sum lies above 1.0.
C1_Witness ==
    /\ Running
    /\ Len(last.log.calls) = 1
    /\ F32Lt(One, UnclampedPosition(last.posBefore, last.log.calls[1]))
    /\ CURRENT_POSITION = One

\* C2: a message on <prefix>/step or <prefix>/set-position whose payload is no
\* parseable number (a malformed integer, a malformed float, invalid UTF-8)
\* emits no pulse, leaves the direction line alone and leaves the stored
\* position unchanged.
C2_DecodeErrorNoMotion ==
    LastDecodeError =>
        /\ last.log.gpio = <<>>
        /\ direction_pin = last.dirBefore
        /\ CURRENT_POSITION = last.posBefore

\* A non-UTF-8 payload reached /set-position with the curtain away from home
\* and the direction line high.
C2_Witness ==
    /\ LastOnSetPosition
    /\ last.event.payload = InvalidUtf8
    /\ last.dirBefore = "high"
    /\ last.posBefore # Zero

\* C3: a decode error or an unrecognized topic is recoverable: the callback
\* returns from such a message without a panic, which leaves the controller
\* Ready for the next one.
C3_ErrorsRecoverable ==
    (LastDecodeError \/ LastUnrecognized) =>
        /\ last.log.panic = "none"
        /\ homing.runs = 1

\* C4: a message whose relative path is neither /step nor /set-position emits
\* no pulses and leaves the stored position unchanged, whatever the payload.
C4_UnrecognizedNoMotion ==
    LastUnrecognized =>
        /\ last.log.gpio = <<>>
        /\ last.log.calls = <<>>
        /\ direction_pin = last.dirBefore
        /\ CURRENT_POSITION = last.posBefore

\* A well-formed target arrived on the telemetry topic with the curtain away
\* from home.
C4_Witness ==
    /\ LastUnrecognized
    /\ last.event.payload = Dec(FALSE, 25, 2)
    /\ last.posBefore # Zero
    /\ Running

\* C5: step(s) changes the stored position to clamp(prev + s / 4600, 0, 1),
\* for every i16 s.
C5_StepPosition ==
    (LastOnStep /\ LastStepsDecode) =>
        CURRENT_POSITION =
            F32Clamp(F32Add(last.posBefore, F32Div(I16ToF32(LastSteps), StepsF32)),
                     Zero, One)

\* C6: step(s) writes the direction line (high for s > 0, low for s <= 0)
\* before the first pulse and then emits exactly |s| pulses, for every i16 s.
C6_DirectionThenPulses ==
    (LastOnStep /\ LastStepsDecode) =>
        /\ Len(last.log.gpio) >= 1
        /\ last.log.gpio[1] = DirWrite(IF LastSteps > 0 THEN "high" ELSE "low")
        /\ \A i \in 2..Len(last.log.gpio) : last.log.gpio[i].pin = "step"
        /\ PulseCount(last.log.gpio) = Abs(LastSteps)

\* Positions homing may start from.
HomingStarts == {Zero, One, ParseF32(Dec(FALSE, 5, 1)).val, NaN}

\* homing_sequence applied to each of them, in either build.
HomingFromAnywhere ==
    \A p \in HomingStarts, d \in {"low", "high"}, c \in BOOLEAN :
        LET m == homing_sequence(Machine(p, d), c)
        IN  /\ m.panic = "none"
            /\ m.position = Zero
            /\ m.gpio = <<DirWrite("low"), StepPulses(STEPS_TO_FULLY_OPEN)>>

\* C7: homing leaves the stored position at exactly 0.0, whatever it held
\* before, and emits exactly STEPS_TO_FULLY_OPEN pulses in the reverse direction.
C7_HomingResult ==
    /\ homing.runs > 0 =>
          /\ homing.position = Zero
          /\ homing.gpio = <<DirWrite("low"), StepPulses(STEPS_TO_FULLY_OPEN)>>
    /\ mainPc = "mqtt_new" => CURRENT_POSITION = Zero /\ direction_pin = "low"
    /\ HomingFromAnywhere

\* Homing has just returned.
C7_Witness == homing.runs = 1 /\ mainPc = "mqtt_new" /\ Running

\* C8: homing runs exactly once, it has completed before the first event is
\* handled and before the first telemetry publish, and main never returns to it.
C8_HomingOnceFirst ==
    /\ [](/\ homing.runs <= 1
          /\ (mainPc # "homing_sequence") => homing.runs = 1
          /\ (handled > 0 \/ published.count > 0) => homing.runs = 1)
    /\ [][mainPc # "homing_sequence" => mainPc' # "homing_sequence"]_vars

\* A command was handled and telemetry published after the one homing.
C8_Witness ==
    /\ last.event.kind = "received"
    /\ published.count > 0
    /\ homing.runs = 1
    /\ ControllerState = "Ready"

\* C9: set_position(target) calls step exactly once, with
\* delta = round(target * 4600) - round(current_position * 4600).
C9_DeltaRounded ==
    (LastOnSetPosition /\ LastTargetDecodes) =>
        last.log.calls =
            << F32RoundToI16(F32Mul(LastTarget, StepsF32))
               - F32RoundToI16(F32Mul(last.posBefore, StepsF32)) >>

\* C10: for a target p in [0.0, 1.0] the position after set_position(p) is
\* within 1 / 4600 of p.
C10_RoundTrip ==
    (/\ LastOnSetPosition
     /\ LastTargetDecodes
     /\ F32Le(Zero, LastTarget)
     /\ F32Le(LastTarget, One)) =>
        F32Le(F32Abs(F32Sub(CURRENT_POSITION, LastTarget)), F32Div(One, StepsF32))

Half == ParseF32(Dec(FALSE, 5, 1)).val

\* C11: from position 0.0 after homing, <prefix>/set-position with "0.5" emits
\* exactly 2300 forward pulses and stores 0.5; from there <prefix>/step with
\* "-100" emits exactly 100 reverse pulses and stores 2200/4600.
C11_EndToEnd ==
    /\ (/\ LastOnSetPosition
        /\ last.event.payload = Dec(FALSE, 5, 1)
        /\ last.posBefore = Zero) =>
           /\ last.log.panic = "none"
           /\ last.log.gpio = <<DirWrite("high"), StepPulses(2300)>>
           /\ CURRENT_POSITION = Half
    /\ (/\ LastOnStep
        /\ last.event.payload = Dec(TRUE, 100, 0)
        /\ last.posBefore = Half) =>
           /\ last.log.panic = "none"
           /\ last.log.gpio = <<DirWrite("low"), StepPulses(100)>>
           /\ CURRENT_POSITION = RoundedQuotient(1, 2200, STEPS_TO_FULLY_OPEN, 0)

\* The step of -100 was the second command, handled at position 0.5.
C11_Witness ==
    /\ handled = 2
    /\ LastOnStep
    /\ last.event.payload = Dec(TRUE, 100, 0)
    /\ last.posBefore = Half
    /\ Running

\* C12: a failed telemetry publish does not stop command processing: after
\* it the callback still takes the next command.
C12_PublishFailureTolerated ==
    (panicked = "publish" /\ handled < MaxEvents) => ENABLED OnReceived

\* C15: only the exact topics <prefix>/step and <prefix>/set-position reach
\* step and set_position; every other topic, one that holds the prefix twice
\* included, causes no pin write and no position change.
C15_OnlyLeadingPrefix ==
    (last.event.kind = "received" /\ last.event.topic.some) =>
        /\ last.log.branch = "step" => last.event.topic = StepTopic
        /\ last.log.branch = "set_position" => last.event.topic = SetPositionTopic
        /\ last.event.topic \notin {StepTopic, SetPositionTopic} =>
              /\ last.log.gpio = <<>>
              /\ last.log.calls = <<>>
              /\ direction_pin = last.dirBefore
              /\ CURRENT_POSITION = last.posBefore

\* C16: for every target /set-position accepts, the i16 subtraction
\* target_steps - current_steps neither overflows nor wraps, forward pulses
\* are emitted only for a target above the current position and reverse pulses
\* only for one below it, and the stored position ends in [0.0, 1.0].
C16_DeltaNoOverflow ==
    (LastOnSetPosition /\ LastTargetDecodes) =>
        /\ last.log.panic # "sub_overflow"
        /\ last.log.calls = <<AsSteps(LastTarget) - AsSteps(last.posBefore)>>
        /\ (PulseCount(last.log.gpio) > 0 /\ last.log.gpio[1].level = "high")
              => F32Lt(last.posBefore, LastTarget)
        /\ (PulseCount(last.log.gpio) > 0 /\ last.log.gpio[1].level = "low")
              => F32Lt(LastTarget, last.posBefore)
        /\ F32Le(Zero, CURRENT_POSITION) /\ F32Le(CURRENT_POSITION, One)

\* C17: when /set-position is handled twice in a row with the same target
\* p in [0.0, 1.0], the second call emits no pulse and leaves the stored
\* position unchanged.
C17_SetPositionIdempotent ==
    [][(/\ LastOnSetPosition
        /\ LastTargetDecodes
        /\ F32Le(Zero, LastTarget)
        /\ F32Le(LastTarget, One)
        /\ handled' = handled + 1
        /\ last'.event = last.event) =>
           /\ PulseCount(last'.log.gpio) = 0
           /\ CURRENT_POSITION' = CURRENT_POSITION]_vars

\* C19: the prefix is set exactly when main has passed line 93, which is
\* before it subscribes; it is never set a second time or changed; and every
\* Received event the callback handled found it set.
C19_PrefixSetBeforeReceived ==
    /\ [](/\ TOPIC_PREFIX.set <=> mainPc \in {"subscribe", "loop"}
          /\ panicked # "topic_prefix_set_twice"
          /\ last.event.kind = "received" =>
                /\ TOPIC_PREFIX.set
                /\ last.log.panic # "topic_prefix_unset")
    /\ [][TOPIC_PREFIX.set => TOPIC_PREFIX' = TOPIC_PREFIX]_vars

\* A command was handled, its prefix read at line 126, and the process runs.
C19_Witness ==
    /\ last.event.kind = "received"
    /\ last.log.branch = "set_position"
    /\ TOPIC_PREFIX = [set |-> TRUE, value |-> TopicPrefixValue]
    /\ Running

\* The callback is inside a command.
InFlight == frame["callback"].pc # "idle"

\* Thread t is at a statement that reads or updates the position under the
\* lock: line 197, lines 184-187, line 223, or the read of line 112.
AtAccess(t) ==
    \/ frame[t].pc \in {"sp_read", "sp_drop", "commit", "home_commit"}
    \/ t = "main" /\ tel.pc = "read"

\* Thread t is about to take the lock: lines 196, 182, 222 and 112.
AtAcquire(t) ==
    \/ frame[t].pc \in {"sp_lock", "lock", "home_lock"}
    \/ t = "main" /\ tel.pc = "lock"

\* C13: the lock is never held by a thread that is writing the direction line
\* or emitting pulses; whoever holds it is at one read or one update of the
\* position, so a telemetry read that waits for the lock waits for that alone.
C13_NoLockAcrossPulses ==
    /\ \A t \in Threads :
         /\ frame[t].pc \in {"direction", "pulse"} => lock # t
         /\ lock = t => AtAccess(t)
    /\ (tel.pc = "lock" /\ lock = "callback") =>
          frame["callback"].pc \in {"sp_read", "sp_drop", "commit"}

\* Telemetry holds the lock and reads while the callback is in its pulse loop.
C13_Witness ==
    /\ lock = "main"
    /\ tel.pc = "read"
    /\ frame["callback"].pc = "pulse"
    /\ PulseCount(frame["callback"].log.gpio) >= 1
    /\ frame["callback"].remaining >= 1

\* What the last event does when its call runs without interruption.
AtomicResult ==
    on_message_received(Machine(last.posBefore, last.dirBefore), last.event,
                        TOPIC_PREFIX, overflow_checks)

\* C14: while a command is in flight the stored position is still the one
\* from before it; the loop has ended when the lock is taken for the commit;
\* the commit stores the command's result in one write; and a value telemetry
\* read since the command began is the position before it or the one after.
C14_PulsesThenAtomicCommit ==
    /\ InFlight => CURRENT_POSITION = last.posBefore
    /\ frame["callback"].pc \in {"lock", "commit"} =>
          frame["callback"].remaining = 0
    /\ (~InFlight /\ last.event.kind = "received") =>
          CURRENT_POSITION = AtomicResult.position
    /\ (tel.pc = "publish" /\ tel.seen = handled /\ handled > 0) =>
          tel.value \in {last.posBefore, AtomicResult.position}

\* Telemetry read the old position while a command was in flight, and that
\* command has since committed another one.
C14_Witness ==
    /\ tel.pc = "publish"
    /\ tel.inflight
    /\ tel.seen = handled
    /\ ~InFlight
    /\ tel.value = last.posBefore
    /\ CURRENT_POSITION # last.posBefore
    /\ Running

\* C18: a thread that has entered the pulse loop of step_motor gets to the
\* end of step_motor: the process is never stopped with a pulse sequence
\* begun and its position update not committed.
C18_RunsToCompletion ==
    \A t \in Threads :
        frame[t].pc \in {"pulse", "lock", "commit"} => Running

\* C20: a thread that is about to take the lock does not hold it, and when
\* another thread holds it, that thread is at its read or update of the
\* position, a statement that waits for nothing and after which the lock is
\* released: no thread waits for the lock forever.
C20_NoSelfDeadlock ==
    \A t \in Threads :
        AtAcquire(t) =>
            /\ lock # t
            /\ lock # "none" => (AtAccess(lock) /\ ~AtAcquire(lock))

\* The callback waits at line 182 for the lock telemetry holds.
C20_Witness ==
    /\ frame["callback"].pc = "lock"
    /\ frame["callback"].fn = "set_position"
    /\ lock = "main"
    /\ tel.pc = "read"
    /\ Running

====
